---- MODULE Spec2Model ----
(***************************************************************************)
(* Connect-K engine of cherryblossom000/connect4 (src/common.py) and its   *)
(* turn loop (src/connectk.py).  Boards are functions from 0-based row     *)
(* index to 0-based column index to cell, as the nested Python lists are;  *)
(* row 0 is the top row.  Columns handed to the engine are 1-based.        *)
(***************************************************************************)
EXTENDS Integers, Sequences, FiniteSets, TLC

VARIABLES
    board,          \* play_game: board
    k,              \* play_game: k
    num_players,    \* play_game: num_players
    player,         \* play_game: player (who moves next)
    state,          \* play_game: state (last end_of_game result)
    last_call,      \* which operation acted last
    prev_board,     \* the board as it was when that operation was called
    last_player,    \* the player argument of that operation
    last_column,    \* the column argument / returned column of that operation
    drop_ok,        \* return value of the operation's drop_piece call
    raised,         \* "" or the exception the operation ended with
    wob,            \* <<>> (None) or <<column>>: win_or_block_column's result
    result,         \* value returned by a function called on its own
    plays,          \* save_hard_cpu_losses: plays (the columns recorded)
    columns,        \* load_and_watch_game: what the iterator has left
    saved           \* <<>> or <<[board, state]>>: the recorded game's end

vars == <<board, k, num_players, player, state, last_call, prev_board,
          last_player, last_column, drop_ok, raised, wob, result, plays,
          columns, saved>>

----------------------------------------------------------------------------
\* Bounds of the model

MaxRows == 3
MaxCols == 3
MaxCells == 9
MaxPlayers == 3
MaxK == 4

----------------------------------------------------------------------------
\* Constants and types (common.py)

GAME_NOT_OVER == 0
DRAW == -1

\* connect4.py: the number of players of the original game
NUM_PLAYERS == 2

Max(a, b) == IF a >= b THEN a ELSE b
Min(a, b) == IF a <= b THEN a ELSE b

NumRows(b) == Cardinality(DOMAIN b)
NumCols(b) == Cardinality(DOMAIN b[0])

\* Python list indexing: a negative index counts from the end; anything else
\* outside the list raises IndexError (here: the value -1).
PyIndex(index, n) ==
    IF 0 <= index /\ index < n THEN index
    ELSE IF -n <= index /\ index < 0 THEN index + n
    ELSE -1

\* Python slice list[start:stop:step] over a list of n elements, as the
\* sequence of indexes it selects.  None is written <<>>, a bound x is <<x>>.
\* Only steps 1 and -1 occur in the source.
PySlice(n, start, stop, step) ==
    IF step > 0
    THEN LET adj(x) == IF x < 0 THEN Max(x + n, 0) ELSE Min(x, n)
             s == IF start = <<>> THEN 0 ELSE adj(start[1])
             e == IF stop = <<>> THEN n ELSE adj(stop[1])
         IN  [i \in 1..Max(e - s, 0) |-> s + i - 1]
    ELSE LET adj(x) == IF x < 0 THEN Max(x + n, -1) ELSE Min(x, n - 1)
             s == IF start = <<>> THEN n - 1 ELSE adj(start[1])
             e == IF stop = <<>> THEN -1 ELSE adj(stop[1])
         IN  [i \in 1..Max(s - e, 0) |-> s - i + 1]

create_board(num_rows, num_cols) ==
    [i \in 0..(num_rows - 1) |-> [j \in 0..(num_cols - 1) |-> 0]]

\* The set of elements of a sequence
Range(seq) == {seq[i] : i \in 1..Len(seq)}

\* enumerate(seq): the 0-based index paired with each element
enumerate(seq) == [n \in 1..Len(seq) |-> <<n - 1, seq[n]>>]

\* A row of the board (a Python list) as a sequence, left to right
RowCells(b, i) == [n \in 1..NumCols(b) |-> b[i][n - 1]]

\* get_free_columns looking at the bottom row (board[-1]) instead of the top
get_free_columns_bottom(b) ==
    LET kept == SelectSeq(enumerate(RowCells(b, NumRows(b) - 1)), LAMBDA e : e[2] = 0)
    IN  [n \in 1..Len(kept) |-> kept[n][1] + 1]

\* get_free_columns without the + 1: 0-based column indexes
get_free_columns_zero_based(b) ==
    LET kept == SelectSeq(enumerate(RowCells(b, 0)), LAMBDA e : e[2] = 0)
    IN  [n \in 1..Len(kept) |-> kept[n][1]]

get_free_columns(b) ==
    LET kept == SelectSeq(enumerate(RowCells(b, 0)), LAMBDA e : e[2] = 0)
    IN  [n \in 1..Len(kept) |-> kept[n][1] + 1]

\* pieces_in_a_row_from_cells yielding whenever len(positions) > 0
RECURSIVE from_cells_loop_singles(_, _, _, _)
from_cells_loop_singles(cells, n, current_player, positions) ==
    IF n > Len(cells)
    THEN IF Len(positions) > 0 /\ current_player # 0
         THEN <<[player |-> current_player, cells |-> positions]>>
         ELSE <<>>
    ELSE LET position == cells[n][1]
             cell == cells[n][2]
         IN  IF cell = current_player
             THEN from_cells_loop_singles(cells, n + 1, current_player,
                                          Append(positions, position))
             ELSE (IF Len(positions) > 0 /\ current_player # 0
                   THEN <<[player |-> current_player, cells |-> positions]>>
                   ELSE <<>>)
                  \o from_cells_loop_singles(cells, n + 1, cell, <<position>>)

\* One pass over a line of (position, cell) pairs: the runs of two or more
\* equal non-empty cells, in the order they end.
RECURSIVE from_cells_loop(_, _, _, _)
from_cells_loop(cells, n, current_player, positions) ==
    IF n > Len(cells)
    THEN IF Len(positions) > 1 /\ current_player # 0
         THEN <<[player |-> current_player, cells |-> positions]>>
         ELSE <<>>
    ELSE LET position == cells[n][1]
             cell == cells[n][2]
         IN  IF cell = current_player
             THEN from_cells_loop(cells, n + 1, current_player,
                                  Append(positions, position))
             ELSE (IF Len(positions) > 1 /\ current_player # 0
                   THEN <<[player |-> current_player, cells |-> positions]>>
                   ELSE <<>>)
                  \o from_cells_loop(cells, n + 1, cell, <<position>>)

pieces_in_a_row_from_cells(cells) == from_cells_loop(cells, 1, 0, <<>>)

\* board_with_positions[i][j] = ((i, j), cell)
board_with_positions(b) ==
    [i \in 0..(NumRows(b) - 1) |->
        [j \in 0..(NumCols(b) - 1) |-> <<<<i, j>>, b[i][j]>>]]

\* The lines scanned by pieces_in_a_row, family by family, each line a
\* sequence of (position, cell) pairs in traversal order.  bwp is
\* board_with_positions.
HorizontalLines(bwp) ==
    [n \in 1..NumRows(bwp) |->
        [m \in 1..NumCols(bwp) |-> bwp[n - 1][m - 1]]]

VerticalLines(bwp) ==
    [n \in 1..NumCols(bwp) |->
        [m \in 1..NumRows(bwp) |-> bwp[m - 1][n - 1]]]

\* for starting_column in range(num_cols - 1):
\*     board_with_positions[: num_cols - starting_column], row[starting_column + offset]
DownFromTopLines(bwp) ==
    LET num_cols == NumCols(bwp)
    IN  [n \in 1..Max(num_cols - 1, 0) |->
            LET starting_column == n - 1
                rws == PySlice(NumRows(bwp), <<>>, <<num_cols - starting_column>>, 1)
            IN  [m \in 1..Len(rws) |-> bwp[rws[m]][starting_column + (m - 1)]]]

\* the same family with range(num_rows - 1), which scans the main diagonal again
DownFromLeftLines_from_top(bwp) ==
    LET num_cols == NumCols(bwp)
    IN  [n \in 1..Max(NumRows(bwp) - 1, 0) |->
            LET starting_row == n - 1
                rws == PySlice(NumRows(bwp), <<starting_row>>,
                               <<starting_row + num_cols>>, 1)
            IN  [m \in 1..Len(rws) |-> bwp[rws[m]][m - 1]]]

\* for starting_row in range(1, num_rows - 1):
\*     board_with_positions[starting_row : starting_row + num_cols], row[offset]
DownFromLeftLines(bwp) ==
    LET num_cols == NumCols(bwp)
    IN  [n \in 1..Max(NumRows(bwp) - 2, 0) |->
            LET starting_row == n
                rws == PySlice(NumRows(bwp), <<starting_row>>,
                               <<starting_row + num_cols>>, 1)
            IN  [m \in 1..Len(rws) |-> bwp[rws[m]][m - 1]]]

\* for starting_column in range(num_cols - 1):
\*     board_with_positions[-1 : -(num_cols - starting_column) - 1 : -1],
\*     row[starting_column + offset]
UpFromBottomLines(bwp) ==
    LET num_cols == NumCols(bwp)
    IN  [n \in 1..Max(num_cols - 1, 0) |->
            LET starting_column == n - 1
                rws == PySlice(NumRows(bwp), <<-1>>,
                               <<-(num_cols - starting_column) - 1>>, -1)
            IN  [m \in 1..Len(rws) |-> bwp[rws[m]][starting_column + (m - 1)]]]

\* for starting_row in range(1, num_rows - 1):
\*     last_index = starting_row - num_cols
\*     board_with_positions[starting_row : (None if last_index < 0 else last_index) : -1],
\*     row[offset]
UpFromLeftLines(bwp) ==
    LET num_cols == NumCols(bwp)
    IN  [n \in 1..Max(NumRows(bwp) - 2, 0) |->
            LET starting_row == n
                last_index == starting_row - num_cols
                rws == PySlice(NumRows(bwp), <<starting_row>>,
                               IF last_index < 0 THEN <<>> ELSE <<last_index>>, -1)
            IN  [m \in 1..Len(rws) |-> bwp[rws[m]][m - 1]]]

\* All scanned lines in the order the generator visits them
ScannedLines(b) ==
    LET bwp == board_with_positions(b)
    IN  HorizontalLines(bwp) \o VerticalLines(bwp) \o DownFromTopLines(bwp)
          \o DownFromLeftLines(bwp) \o UpFromBottomLines(bwp) \o UpFromLeftLines(bwp)

RECURSIVE runs_of_lines(_, _)
runs_of_lines(lines, n) ==
    IF n > Len(lines) THEN <<>>
    ELSE pieces_in_a_row_from_cells(lines[n]) \o runs_of_lines(lines, n + 1)

\* The runs yielded by the generator, in order
pieces_in_a_row(b) == runs_of_lines(ScannedLines(b), 1)

\* end_of_game with the length test off by one (len(cells) > k)
end_of_game_strict(kk, b) ==
    LET long == SelectSeq(pieces_in_a_row(b), LAMBDA run : Len(run.cells) > kk)
    IN  IF Len(long) > 0 THEN long[1].player
        ELSE IF \E j \in DOMAIN b[0] : b[0][j] = 0 THEN GAME_NOT_OVER
        ELSE DRAW

\* end_of_game with the length test off by one the other way (len(cells) >= k - 1)
end_of_game_lenient(kk, b) ==
    LET long == SelectSeq(pieces_in_a_row(b), LAMBDA run : Len(run.cells) >= kk - 1)
    IN  IF Len(long) > 0 THEN long[1].player
        ELSE IF \E j \in DOMAIN b[0] : b[0][j] = 0 THEN GAME_NOT_OVER
        ELSE DRAW

\* end_of_game without its draw test: a full board without a line is NotOver
end_of_game_no_draw(kk, b) ==
    LET long == SelectSeq(pieces_in_a_row(b), LAMBDA run : Len(run.cells) >= kk)
    IN  IF Len(long) > 0 THEN long[1].player ELSE GAME_NOT_OVER

end_of_game(kk, b) ==
    LET long == SelectSeq(pieces_in_a_row(b), LAMBDA run : Len(run.cells) >= kk)
    IN  IF Len(long) > 0 THEN long[1].player
        ELSE IF \E j \in DOMAIN b[0] : b[0][j] = 0 THEN GAME_NOT_OVER
        ELSE DRAW

\* for row in reversed(board): if row[index] == 0: row[index] = player; return True
\* The result carries the list as the call leaves it, the return value and
\* the exception when row[index] is out of range.
RECURSIVE drop_scan(_, _, _, _)
drop_scan(b, who, index, i) ==
    IF i < 0 THEN [board |-> b, ret |-> FALSE, raised |-> ""]
    ELSE IF PyIndex(index, NumCols(b)) = -1
         THEN [board |-> b, ret |-> FALSE, raised |-> "IndexError"]
    ELSE IF b[i][PyIndex(index, NumCols(b))] = 0
         THEN [board |-> [b EXCEPT ![i][PyIndex(index, NumCols(b))] = who],
               ret |-> TRUE, raised |-> ""]
    ELSE drop_scan(b, who, index, i - 1)

\* drop_piece scanning the rows top-down (the reversed() forgotten)
RECURSIVE drop_scan_down(_, _, _, _)
drop_scan_down(b, who, index, i) ==
    IF i >= NumRows(b) THEN [board |-> b, ret |-> FALSE, raised |-> ""]
    ELSE IF PyIndex(index, NumCols(b)) = -1
         THEN [board |-> b, ret |-> FALSE, raised |-> "IndexError"]
    ELSE IF b[i][PyIndex(index, NumCols(b))] = 0
         THEN [board |-> [b EXCEPT ![i][PyIndex(index, NumCols(b))] = who],
               ret |-> TRUE, raised |-> ""]
    ELSE drop_scan_down(b, who, index, i + 1)

drop_piece_unreversed(b, who, column) == drop_scan_down(b, who, column - 1, 0)

drop_piece(b, who, column) == drop_scan(b, who, column - 1, NumRows(b) - 1)

\* [row.copy() for row in board]
copy_rows(b) == [i \in DOMAIN b |-> [j \in DOMAIN b[i] |-> b[i][j]]]

copy_and_drop_piece(b, who, column) == drop_piece(copy_rows(b), who, column).board

\* for i in range(num_players - 1): opponent = (player + i) % num_players + 1
\* In ascending id order instead of turn order (as column_score's loop goes)
opponents_ascending(n, who) ==
    [i \in 1..Max(n - 1, 0) |-> IF i < who THEN i ELSE i + 1]

\* The opponents in the order the block loop visits them
opponents_in_turn_order(n, who) ==
    [i \in 1..Max(n - 1, 0) |-> ((who + (i - 1)) % n) + 1]

\* The block loop of win_or_block_column, from the i-th opponent on
RECURSIVE block_loop(_, _, _, _, _)
block_loop(kk, b, free_columns, opponents, i) ==
    IF i > Len(opponents) THEN <<>>
    ELSE LET opponent == opponents[i]
             wins == SelectSeq(free_columns, LAMBDA column :
                        end_of_game(kk, copy_and_drop_piece(b, opponent, column)) = opponent)
         IN  IF Len(wins) > 0 THEN <<wins[1]>>
             ELSE block_loop(kk, b, free_columns, opponents, i + 1)

\* win_or_block_column with the two loops swapped: blocking before winning
win_or_block_column_block_first(kk, n, b, free_columns, who) ==
    LET blocked == block_loop(kk, b, free_columns, opponents_in_turn_order(n, who), 1)
        wins == SelectSeq(free_columns, LAMBDA column :
                    end_of_game(kk, copy_and_drop_piece(b, who, column)) = who)
    IN  IF blocked # <<>> THEN blocked
        ELSE IF Len(wins) > 0 THEN <<wins[1]>>
        ELSE <<>>

\* Optional[Column]: <<>> is None, <<c>> is column c
win_or_block_column(kk, n, b, free_columns, who) ==
    LET wins == SelectSeq(free_columns, LAMBDA column :
                    end_of_game(kk, copy_and_drop_piece(b, who, column)) = who)
    IN  IF Len(wins) > 0 THEN <<wins[1]>>
        ELSE block_loop(kk, b, free_columns, opponents_in_turn_order(n, who), 1)

\* Python's `x or y` on an Optional[Column]: None and 0 are falsy
PyOr(opt, alt) == IF opt = <<>> \/ opt[1] = 0 THEN alt ELSE opt[1]

RECURSIVE count_free_cells(_, _, _, _, _)
count_free_cells(b, row, col, row_diff, col_diff) ==
    LET r == row + row_diff
        c == col + col_diff
    IN  IF 0 <= r /\ r < NumRows(b) /\ 0 <= c /\ c < NumCols(b) /\ b[r][c] = 0
        THEN 1 + count_free_cells(b, r, c, row_diff, col_diff)
        ELSE 0

can_win_from_pieces(kk, b, positions) ==
    LET fst_pos == positions[1]
        snd_pos == positions[2]
        lst_pos == positions[Len(positions)]
        row_diff == snd_pos[1] - fst_pos[1]
        col_diff == snd_pos[2] - fst_pos[2]
    IN  count_free_cells(b, lst_pos[1], lst_pos[2], row_diff, col_diff)
          + count_free_cells(b, fst_pos[1], fst_pos[2], -row_diff, -col_diff)
          >= kk - Len(positions)

can_win_now(kk, b, who) ==
    LET free == get_free_columns(b)
    IN  \E n \in 1..Len(free) :
            end_of_game(kk, copy_and_drop_piece(b, who, free[n])) = who

\* counts[index][side] += 1 with Python list indexing; acc carries the table
\* and the exception raised so far.  side 1 is the player's, side 2 the
\* opponents'.
bump(acc, index, side) ==
    IF acc.raised # "" THEN acc
    ELSE IF PyIndex(index, Len(acc.counts)) = -1
         THEN [acc EXCEPT !.raised = "IndexError"]
    ELSE [acc EXCEPT !.counts[PyIndex(index, Len(acc.counts)) + 1][side] = @ + 1]

\* for row_player, cells in pieces_in_a_row(new_board):
\*     if row_player == player and can_win_from_pieces(k, board, cells): ...
RECURSIVE count_player_runs(_, _, _, _, _, _)
count_player_runs(kk, b, who, runs, n, acc) ==
    IF n > Len(runs) THEN acc
    ELSE count_player_runs(kk, b, who, runs, n + 1,
            IF runs[n].player = who /\ can_win_from_pieces(kk, b, runs[n].cells)
            THEN bump(acc, kk - Len(runs[n].cells) - 1, 1)
            ELSE acc)

\* for row_player, cells in pieces_in_a_row(board_with_opponents_play): ...
RECURSIVE count_opponent_runs(_, _, _, _, _, _)
count_opponent_runs(kk, bo, opponent, runs, n, acc) ==
    IF n > Len(runs) THEN acc
    ELSE count_opponent_runs(kk, bo, opponent, runs, n + 1,
            IF runs[n].player = opponent
               /\ can_win_from_pieces(kk, bo, runs[n].cells)
               /\ Len(runs[n].cells) # 2
            THEN bump(acc, kk - Len(runs[n].cells) - 1, 2)
            ELSE acc)

\* column_score's opponent loop asking can_win_now on the board as it is,
\* without the player's own move simulated
RECURSIVE opponents_loop_unsimulated(_, _, _, _, _, _, _)
opponents_loop_unsimulated(kk, n, b, who, column, opponent, acc) ==
    IF opponent > n THEN [ok |-> TRUE, counts |-> acc.counts, raised |-> acc.raised]
    ELSE IF acc.raised # "" THEN [ok |-> TRUE, counts |-> acc.counts, raised |-> acc.raised]
    ELSE IF opponent = who
         THEN opponents_loop_unsimulated(kk, n, b, who, column, opponent + 1, acc)
    ELSE LET board_with_opponents_play == copy_and_drop_piece(b, opponent, column)
         IN  IF can_win_now(kk, b, opponent)
             THEN [ok |-> FALSE, counts |-> <<>>, raised |-> ""]
             ELSE opponents_loop_unsimulated(kk, n, b, who, column, opponent + 1,
                     count_opponent_runs(kk, board_with_opponents_play, opponent,
                         pieces_in_a_row(board_with_opponents_play), 1, acc))

\* for opponent in range(1, num_players + 1): ...
RECURSIVE opponents_loop(_, _, _, _, _, _, _)
opponents_loop(kk, n, b, who, column, opponent, acc) ==
    IF opponent > n THEN [ok |-> TRUE, counts |-> acc.counts, raised |-> acc.raised]
    ELSE IF acc.raised # "" THEN [ok |-> TRUE, counts |-> acc.counts, raised |-> acc.raised]
    ELSE IF opponent = who THEN opponents_loop(kk, n, b, who, column, opponent + 1, acc)
    ELSE LET board_with_players_play == copy_and_drop_piece(b, who, column)
             board_with_opponents_play == copy_and_drop_piece(b, opponent, column)
         IN  IF can_win_now(kk, board_with_players_play, opponent)
             THEN [ok |-> FALSE, counts |-> <<>>, raised |-> ""]
             ELSE opponents_loop(kk, n, b, who, column, opponent + 1,
                     count_opponent_runs(kk, board_with_opponents_play, opponent,
                         pieces_in_a_row(board_with_opponents_play), 1, acc))

\* The score (ok, counts) of a column, or the exception the call ends with
column_score(kk, n, b, who, column) ==
    LET counts == [i \in 1..Max(kk - 2, 0) |-> <<0, 0>>]
        new_board == copy_and_drop_piece(b, who, column)
        mine == count_player_runs(kk, b, who, pieces_in_a_row(new_board), 1,
                                  [counts |-> counts, raised |-> ""])
    IN  opponents_loop(kk, n, b, who, column, 1, mine)

\* Python's < on lists of ints
RECURSIVE int_list_less(_, _, _)
int_list_less(x, y, n) ==
    IF n > Len(x) THEN n <= Len(y)
    ELSE IF n > Len(y) THEN FALSE
    ELSE IF x[n] # y[n] THEN x[n] < y[n]
    ELSE int_list_less(x, y, n + 1)

\* Python's < on lists of lists of ints
RECURSIVE list_list_less(_, _, _)
list_list_less(x, y, n) ==
    IF n > Len(x) THEN n <= Len(y)
    ELSE IF n > Len(y) THEN FALSE
    ELSE IF x[n] # y[n] THEN int_list_less(x[n], y[n], 1)
    ELSE list_list_less(x, y, n + 1)

\* The tie-break key without the `num_cols -`: twice the distance to the centre
tiebreak2_distance(num_cols, column) ==
    LET d == num_cols + 1 - 2 * column
    IN  IF d < 0 THEN -d ELSE d

\* Twice num_cols - abs((num_cols + 1) / 2 - column), to stay in the integers
tiebreak2(num_cols, column) ==
    LET d == num_cols + 1 - 2 * column
    IN  2 * num_cols - (IF d < 0 THEN -d ELSE d)

\* Python's < on the keys ((ok, counts), tiebreak)
key_less(x, y) ==
    IF x.score.ok # y.score.ok THEN y.score.ok
    ELSE IF x.score.counts # y.score.counts
         THEN list_list_less(x.score.counts, y.score.counts, 1)
    ELSE x.tiebreak < y.tiebreak

hard_key(kk, n, b, who, column) ==
    [score |-> column_score(kk, n, b, who, column),
     tiebreak |-> tiebreak2(NumCols(b), column)]

\* max(items, key=...): the first item whose key no later item exceeds;
\* keys[i] is the key of items[i], best the index of the maximum so far
RECURSIVE max_by_key(_, _, _, _)
max_by_key(items, keys, i, best) ==
    IF i > Len(items) THEN items[best]
    ELSE max_by_key(items, keys, i + 1,
                    IF key_less(keys[best], keys[i]) THEN i ELSE best)

\* The outcome of one strategy call: the caller's board as the call leaves
\* it, the returned column, the value of the asserted drop_piece call, the
\* exception if the call ends with one, and win_or_block_column's result.
turn_result(b, who, chosen_column, w) ==
    LET r == drop_piece(b, who, chosen_column)
    IN  [board |-> r.board, column |-> chosen_column, ok |-> r.ret,
         raised |-> IF r.raised # "" THEN r.raised
                    ELSE IF ~r.ret THEN "AssertionError" ELSE "",
         wob |-> w]

\* A strategy call is modelled by the set of outcomes it can have: one for
\* each column the user may enter, or random.choice may draw.

\* str(column) and int(column_str) on the column numbers, in decimal
Digit == <<"0", "1", "2", "3", "4", "5", "6", "7", "8", "9">>

RECURSIVE py_str(_)
py_str(n) == IF n < 10 THEN Digit[n + 1] ELSE py_str(n \div 10) \o Digit[(n % 10) + 1]

py_int(str) == CHOOSE n \in 0..99 : py_str(n) = str

\* validate_input hands back one of the strings offered as valid_inputs
execute_player_turn(kk, n, b, who) ==
    LET valid_inputs == {py_str(column) : column \in Range(get_free_columns(b))}
    IN  {turn_result(b, who, py_int(column_str), <<>>) : column_str \in valid_inputs}

\* cpu_player_easy drawing among all the columns, full ones included
cpu_player_easy_any_column(kk, n, b, who) ==
    {turn_result(b, who, choice, <<>>) : choice \in 1..NumCols(b)}

cpu_player_easy(kk, n, b, who) ==
    {turn_result(b, who, choice, <<>>) : choice \in Range(get_free_columns(b))}

cpu_player_medium(kk, n, b, who) ==
    LET free_columns == get_free_columns(b)
        w == win_or_block_column(kk, n, b, free_columns, who)
    IN  IF w # <<>> /\ w[1] # 0 THEN {turn_result(b, who, w[1], w)}
        ELSE {turn_result(b, who, choice, w) : choice \in Range(free_columns)}

\* cpu_player_hard going straight to max(free_columns, key=...), without
\* asking win_or_block_column
cpu_player_hard_scores_only(kk, n, b, who) ==
    LET free_columns == get_free_columns(b)
        keys == [i \in 1..Len(free_columns) |->
                    hard_key(kk, n, b, who, free_columns[i])]
    IN  IF \E i \in 1..Len(keys) : keys[i].score.raised # ""
        THEN {[board |-> b, column |-> 0, ok |-> FALSE,
               raised |-> "IndexError", wob |-> <<>>]}
        ELSE {turn_result(b, who, max_by_key(free_columns, keys, 1, 1), <<>>)}

cpu_player_hard(kk, n, b, who) ==
    LET free_columns == get_free_columns(b)
        w == win_or_block_column(kk, n, b, free_columns, who)
        keys == [i \in 1..Len(free_columns) |->
                    hard_key(kk, n, b, who, free_columns[i])]
    IN  IF w # <<>> /\ w[1] # 0 THEN {turn_result(b, who, w[1], w)}
        ELSE IF \E i \in 1..Len(keys) : keys[i].score.raised # ""
             THEN {[board |-> b, column |-> 0, ok |-> FALSE,
                    raised |-> "IndexError", wob |-> w]}
        ELSE {turn_result(b, who, max_by_key(free_columns, keys, 1, 1), w)}

----------------------------------------------------------------------------
\* The turn loop (connectk.py play_game)

\* ask_for_positive_int and the two validation loops of play_game
Setups ==
    {s \in [num_rows : 1..MaxRows, num_cols : 1..MaxCols,
            k : 1..Max(MaxRows, MaxCols), num_players : 1..MaxPlayers] :
        /\ s.num_rows * s.num_cols <= MaxCells
        /\ ~(s.k > Max(s.num_rows, s.num_cols))
        /\ ~((s.num_rows * s.num_cols) \div s.num_players < s.k)}

Init ==
    \E s \in Setups :
        /\ board = create_board(s.num_rows, s.num_cols)
        /\ k = s.k
        /\ num_players = s.num_players
        /\ player = 1
        /\ state = GAME_NOT_OVER
        /\ last_call = "none"
        /\ prev_board = create_board(s.num_rows, s.num_cols)
        /\ last_player = 0
        /\ last_column = 0
        /\ drop_ok = FALSE
        /\ raised = ""
        /\ wob = <<>>
        /\ result = <<>>
        /\ plays = <<>>
        /\ columns = <<>>
        /\ saved = <<>>

\* The turn loop's iteration with `player = player + 1`, the wrap forgotten
PlayTurn_no_wrap(name, r) ==
    /\ last_call' = name
    /\ prev_board' = board
    /\ last_player' = player
    /\ last_column' = r.column
    /\ drop_ok' = r.ok
    /\ raised' = r.raised
    /\ wob' = r.wob
    /\ board' = r.board
    /\ state' = IF r.raised = "" THEN end_of_game(k, r.board) ELSE state
    /\ player' = IF r.raised = "" THEN player + 1 ELSE player
    /\ UNCHANGED <<k, num_players>>

\* One iteration of `while state == GAME_NOT_OVER`: the strategy's call,
\* then end_of_game, then the next player.  An exception ends the program.
PlayTurn(name, r) ==
    /\ last_call' = name
    /\ prev_board' = board
    /\ last_player' = player
    /\ last_column' = r.column
    /\ drop_ok' = r.ok
    /\ raised' = r.raised
    /\ wob' = r.wob
    /\ board' = r.board
    /\ state' = IF r.raised = "" THEN end_of_game(k, r.board) ELSE state
    /\ player' = IF r.raised = "" THEN (player % num_players) + 1 ELSE player
    /\ UNCHANGED <<k, num_players>>

Running == state = GAME_NOT_OVER /\ raised = ""

HumanTurn ==
    /\ Running
    /\ \E r \in execute_player_turn(k, num_players, board, player) :
           PlayTurn("human", r)
    /\ UNCHANGED <<result, plays, columns, saved>>

EasyTurn ==
    /\ Running
    /\ \E r \in cpu_player_easy(k, num_players, board, player) :
           PlayTurn("easy", r)
    /\ UNCHANGED <<result, plays, columns, saved>>

MediumTurn ==
    /\ Running
    /\ \E r \in cpu_player_medium(k, num_players, board, player) :
           PlayTurn("medium", r)
    /\ UNCHANGED <<result, plays, columns, saved>>

HardTurn ==
    /\ Running
    /\ \E r \in cpu_player_hard(k, num_players, board, player) :
           PlayTurn("hard", r)
    /\ UNCHANGED <<result, plays, columns, saved>>

\* get_player_turn_function lets the user give any strategy to any player;
\* choosing the strategy anew at every turn covers every such assignment.
Next == HumanTurn \/ EasyTurn \/ MediumTurn \/ HardTurn

Spec == Init /\ [][Next]_vars

----------------------------------------------------------------------------
\* The engine's functions called on their own

\* The shapes of board the model covers
Shapes ==
    {d \in (1..MaxRows) \X (1..MaxCols) : d[1] * d[2] <= MaxCells}

\* Every rectangular board of these shapes holding tokens of the players of
\* the original game
Boards ==
    UNION {[0..(d[1] - 1) -> [0..(d[2] - 1) -> 0..NUM_PLAYERS]] : d \in Shapes}

Idle(b, kk) ==
    /\ board = b
    /\ k = kk
    /\ num_players = NUM_PLAYERS
    /\ player = 1
    /\ state = GAME_NOT_OVER
    /\ last_call = "none"
    /\ prev_board = b
    /\ last_player = 0
    /\ last_column = 0
    /\ drop_ok = FALSE
    /\ raised = ""
    /\ wob = <<>>
    /\ result = <<>>
    /\ plays = <<>>
    /\ columns = <<>>
    /\ saved = <<>>

\* state = end_of_game(k, board) on any board
InitEval == \E b \in Boards : \E kk \in 2..MaxK : Idle(b, kk)

EndOfGameCall ==
    /\ last_call = "none"
    /\ last_call' = "end_of_game"
    /\ state' = end_of_game(k, board)
    /\ UNCHANGED <<board, k, num_players, player, prev_board, last_player,
                   last_column, drop_ok, raised, wob, result, plays, columns,
                   saved>>

NextEval == EndOfGameCall

SpecEval == InitEval /\ [][NextEval]_vars

\* drop_piece(board, who, column) with any column, also just outside the board
DropPieceCall(who, column) ==
    LET r == drop_piece(board, who, column)
    IN  /\ last_call' = "drop_piece"
        /\ prev_board' = board
        /\ last_player' = who
        /\ last_column' = column
        /\ board' = r.board
        /\ drop_ok' = r.ret
        /\ raised' = r.raised
        /\ UNCHANGED <<k, num_players, player, state, wob, result, plays,
                       columns, saved>>

\* one drop_piece call on any board
InitDrop == \E b \in Boards : Idle(b, 0)

DropAnywhere ==
    /\ last_call = "none"
    /\ \E who \in 1..NUM_PLAYERS : \E column \in 0..(NumCols(board) + 1) :
           DropPieceCall(who, column)

NextDrop == DropAnywhere

SpecDrop == InitDrop /\ [][NextDrop]_vars

\* any sequence of drop_piece calls on a board made by create_board
InitFill == \E d \in Shapes : Idle(create_board(d[1], d[2]), 0)

DropInside ==
    \E who \in 1..NUM_PLAYERS : \E column \in 1..NumCols(board) :
        DropPieceCall(who, column)

NextFill == DropInside

SpecFill == InitFill /\ [][NextFill]_vars

\* result = list(pieces_in_a_row(board)) on any board
InitScan == \E b \in Boards : Idle(b, 0)

ScanCall ==
    /\ last_call = "none"
    /\ last_call' = "pieces_in_a_row"
    /\ result' = pieces_in_a_row(board)
    /\ UNCHANGED <<board, k, num_players, player, state, prev_board,
                   last_player, last_column, drop_ok, raised, wob, plays,
                   columns, saved>>

NextScan == ScanCall

SpecScan == InitScan /\ [][NextScan]_vars

----------------------------------------------------------------------------
\* Recording a game and watching it again (util.py)

\* json.dump(plays, file) and json.load(file): the columns in decimal
json_dump(list) == [i \in 1..Len(list) |-> py_str(list[i])]

json_load(file) == [i \in 1..Len(file) |-> py_int(file[i])]

\* plays.append(<strategy>(K, NUM_PLAYERS, board, player)); state = end_of_game(K, board);
\* player = player % NUM_PLAYERS + 1
Record(name, r) ==
    /\ PlayTurn(name, r)
    /\ plays' = IF r.raised = "" THEN Append(plays, r.column) ELSE plays
    /\ UNCHANGED <<result, columns, saved>>

\* One iteration of save_hard_cpu_losses' inner loop:
\*     (cpu_player_medium if player == 1 else cpu_player_hard)(K, NUM_PLAYERS, board, player)
\* A turn typed in by a user is let in as well, so that the recorded game
\* can be any game: every free column is a move the user can make.
RecordTurn ==
    /\ saved = <<>>
    /\ Running
    /\ \/ /\ player = 1
          /\ \E r \in cpu_player_medium(k, num_players, board, player) :
                 Record("medium", r)
       \/ /\ player # 1
          /\ \E r \in cpu_player_hard(k, num_players, board, player) :
                 Record("hard", r)
       \/ \E r \in execute_player_turn(k, num_players, board, player) :
              Record("human", r)

\* load_and_watch_game that goes on with the player whose turn would be next
LoadGame_keeps_player ==
    /\ saved = <<>>
    /\ state # GAME_NOT_OVER
    /\ raised = ""
    /\ saved' = <<[board |-> board, state |-> state]>>
    /\ columns' = json_load(json_dump(plays))
    /\ board' = create_board(NumRows(board), NumCols(board))
    /\ state' = GAME_NOT_OVER
    /\ last_call' = "load_and_watch_game"
    /\ UNCHANGED <<k, num_players, player, prev_board, last_player, last_column,
                   drop_ok, raised, wob, result, plays>>

\* The finished game is written out, read back by load_and_watch_game, and
\* watch_game starts: a fresh board, player 1, GAME_NOT_OVER.  saved keeps
\* the board and the outcome the recording ended with.
LoadGame ==
    /\ saved = <<>>
    /\ state # GAME_NOT_OVER
    /\ raised = ""
    /\ saved' = <<[board |-> board, state |-> state]>>
    /\ columns' = json_load(json_dump(plays))
    /\ board' = create_board(NumRows(board), NumCols(board))
    /\ player' = 1
    /\ state' = GAME_NOT_OVER
    /\ last_call' = "load_and_watch_game"
    /\ UNCHANGED <<k, num_players, prev_board, last_player, last_column,
                   drop_ok, raised, wob, result, plays>>

\* One iteration of watch_game's loop with load_and_watch_game's play_turn:
\* column = next(columns); assert drop_piece(board, player, column)
ReplayTurn ==
    /\ saved # <<>>
    /\ Running
    /\ IF columns = <<>>
       THEN /\ raised' = "StopIteration"
            /\ last_call' = "replay"
            /\ UNCHANGED <<board, k, num_players, player, state, prev_board,
                           last_player, last_column, drop_ok, wob, columns>>
       ELSE /\ PlayTurn("replay", turn_result(board, player, Head(columns), <<>>))
            /\ columns' = Tail(columns)
    /\ UNCHANGED <<result, plays, saved>>

NextReplay == RecordTurn \/ LoadGame \/ ReplayTurn

SpecReplay == Init /\ [][NextReplay]_vars

----------------------------------------------------------------------------
\* Properties of boards stated independently of the scanning code

Strategies == {"human", "easy", "medium", "hard"}

\* The four directions a line can run in
Directions == {<<0, 1>>, <<1, 0>>, <<1, 1>>, <<-1, 1>>}

\* who holds n consecutive cells of b along a row, a column or a diagonal
HasLine(b, who, n) ==
    \E r \in 0..(NumRows(b) - 1) : \E c \in 0..(NumCols(b) - 1) :
        \E d \in Directions : \A i \in 0..(n - 1) :
            /\ r + i * d[1] \in 0..(NumRows(b) - 1)
            /\ c + i * d[2] \in 0..(NumCols(b) - 1)
            /\ b[r + i * d[1]][c + i * d[2]] = who

\* The tokens on a board
Tokens(b) == {b[i][j] : i \in 0..(NumRows(b) - 1), j \in 0..(NumCols(b) - 1)} \ {0}

TopRowHasEmpty(b) == \E j \in 0..(NumCols(b) - 1) : b[0][j] = 0

\* The 1-based columns whose top cell is empty
FreeCols(b) == {c \in 1..NumCols(b) : b[0][c - 1] = 0}

\* The rows of the empty cells of 1-based column c
EmptyRows(b, c) == {i \in 0..(NumRows(b) - 1) : b[i][c - 1] = 0}

Lowest(S) == CHOOSE x \in S : \A y \in S : y <= x
Least(S) == CHOOSE x \in S : \A y \in S : x <= y

\* b with who written into the bottom-most empty cell of column c
Dropped(b, who, c) == [b EXCEPT ![Lowest(EmptyRows(b, c))][c - 1] = who]

\* No empty cell lies below an occupied cell of the same column
Gravity(b) ==
    \A i \in 0..(NumRows(b) - 2) : \A j \in 0..(NumCols(b) - 1) :
        b[i][j] # 0 => b[i + 1][j] # 0

----------------------------------------------------------------------------
C2_WinNeverMissed ==
    (last_call \in Strategies /\ raised = "" /\ HasLine(board, last_player, k))
        => state = last_player

\* C3: drop_piece with a column in 1..cols writes the player into the
\* bottom-most empty cell of the column, changes nothing else and returns
\* True; on a full column it returns False and changes nothing.
C3_DropPieceInRange ==
    (last_call = "drop_piece" /\ last_column \in 1..NumCols(prev_board)) =>
        /\ raised = ""
        /\ IF EmptyRows(prev_board, last_column) # {}
           THEN drop_ok /\ board = Dropped(prev_board, last_player, last_column)
           ELSE ~drop_ok /\ board = prev_board

\* A drop that lands on top of an occupied cell and under an occupied cell
C3_Witness ==
    /\ last_call = "drop_piece"
    /\ last_column \in 1..NumCols(prev_board)
    /\ drop_ok
    /\ \E i \in 1..(NumRows(board) - 2) :
          /\ prev_board[i][last_column - 1] = 0
          /\ board[i][last_column - 1] = last_player
          /\ prev_board[i + 1][last_column - 1] # 0
          /\ prev_board[i - 1][last_column - 1] # 0

\* C4: drop_piece with a column outside 1..cols returns failure, raises
\* nothing and leaves the board unchanged.
C4_DropPieceOutOfRange ==
    (last_call = "drop_piece" /\ last_column \notin 1..NumCols(prev_board)) =>
        /\ raised = ""
        /\ ~drop_ok
        /\ board = prev_board

\* C5: on every board filled from create_board by drop_piece calls with
\* columns in 1..cols, no empty cell lies below an occupied one, and a column
\* is free (top cell empty) exactly when a drop into it succeeds.
C5_Gravity ==
    /\ Gravity(board)
    /\ \A c \in 1..NumCols(board) :
          (c \in Range(get_free_columns(board))) <=> drop_piece(board, 1, c).ret
    /\ last_call = "drop_piece" =>
          (drop_ok <=> last_column \in Range(get_free_columns(prev_board)))

\* A drop refused on a column that was filled by earlier drops
C5_Witness ==
    /\ last_call = "drop_piece"
    /\ ~drop_ok
    /\ NumRows(board) >= 2
    /\ last_column \notin Range(get_free_columns(board))
    /\ \E c \in 1..NumCols(board) : c \in Range(get_free_columns(board))

\* The columns of b in which a drop by who makes end_of_game return who
WinningCols(b, who) ==
    {c \in FreeCols(b) : end_of_game(k, copy_and_drop_piece(b, who, c)) = who}

\* The player who moves after p
NextPlayer(p) == (p % num_players) + 1

\* The i-th player to move after p
RECURSIVE Later(_, _)
Later(p, i) == IF i = 0 THEN p ELSE NextPlayer(Later(p, i - 1))

\* After who drops in column c of b no opponent can win at once
Safe(b, who, c) ==
    \A o \in (1..num_players) \ {who} :
        ~can_win_now(k, copy_and_drop_piece(b, who, c), o)

\* C6: every strategy call on a reachable NotOver board ends without an
\* exception, its asserted drop succeeds, the column it returns was free
\* before the call, and the board differs from the board before the call in
\* exactly the lowest empty cell of that column, which now holds the player.
C6_StrategyContract ==
    last_call \in Strategies =>
        /\ raised = ""
        /\ drop_ok
        /\ last_column \in FreeCols(prev_board)
        /\ board = Dropped(prev_board, last_player, last_column)

\* The hard strategy has scored the columns (no win or block was found) and
\* played on top of earlier tokens
C6_Witness ==
    /\ last_call = "hard"
    /\ wob = <<>>
    /\ drop_ok
    /\ last_column \in FreeCols(prev_board)
    /\ Cardinality(EmptyRows(prev_board, last_column)) < NumRows(prev_board)
    /\ board # prev_board

\* C7: when medium or hard is called for a player who has a free column
\* that would give them a line of k, the move played wins the game.
C7_TakesTheWin ==
    (/\ last_call \in {"medium", "hard"}
     /\ raised = ""
     /\ \E c \in FreeCols(prev_board) :
            HasLine(Dropped(prev_board, last_player, c), last_player, k))
        => state = last_player

\* C8: when hard is called for a player with no immediately winning column
\* and some free column leaves no opponent an immediate win, the column
\* played is such a column.
C8_HardAvoidsLoss ==
    (/\ last_call = "hard"
     /\ raised = ""
     /\ ~can_win_now(k, prev_board, last_player)
     /\ \E c \in FreeCols(prev_board) : Safe(prev_board, last_player, c))
        => Safe(prev_board, last_player, last_column)

\* Hard scored the columns, some of which would have let an opponent win
C8_Witness ==
    /\ last_call = "hard"
    /\ raised = ""
    /\ wob = <<>>
    /\ \E c \in FreeCols(prev_board) : ~Safe(prev_board, last_player, c)
    /\ Safe(prev_board, last_player, last_column)

\* C9: when some free column wins for the player, win_or_block_column
\* returns the lowest-numbered such column, whatever the opponents threaten.
C9_OwnWinFirst ==
    (/\ last_call \in {"medium", "hard"}
     /\ WinningCols(prev_board, last_player) # {})
        => wob = <<Least(WinningCols(prev_board, last_player))>>

\* The player won in a column to the right of one an opponent threatened
C9_Witness ==
    /\ last_call \in {"medium", "hard"}
    /\ WinningCols(prev_board, last_player) # {}
    /\ wob = <<last_column>>
    /\ \E o \in (1..num_players) \ {last_player} :
          \E c \in WinningCols(prev_board, o) : c < last_column

\* C10: when no free column wins for the player, the block loop visits the
\* num_players - 1 opponents in turn order from the next player on, each
\* once and never the player, and win_or_block_column returns the lowest
\* column winning for the earliest opponent that has one; it returns None
\* exactly when no opponent has one.
C10_BlockInTurnOrder ==
    (/\ last_call \in {"medium", "hard"}
     /\ WinningCols(prev_board, last_player) = {})
        => LET order == opponents_in_turn_order(num_players, last_player)
               threats == {i \in 1..(num_players - 1) :
                              WinningCols(prev_board, Later(last_player, i)) # {}}
           IN  /\ Len(order) = num_players - 1
               /\ \A i \in 1..Len(order) : order[i] = Later(last_player, i)
               /\ Range(order) = (1..num_players) \ {last_player}
               /\ (wob = <<>>) <=> (threats = {})
               /\ threats # {} =>
                     wob = <<Least(WinningCols(prev_board,
                                     Later(last_player, Least(threats))))>>

\* The block went to the opponent who moves next although a later opponent
\* with a smaller id threatened a column further left
C10_Witness ==
    /\ last_call \in {"medium", "hard"}
    /\ WinningCols(prev_board, last_player) = {}
    /\ wob = <<last_column>>
    /\ \E o \in 1..num_players :
          /\ o < NextPlayer(last_player)
          /\ o # last_player
          /\ WinningCols(prev_board, NextPlayer(last_player)) # {}
          /\ \E c \in WinningCols(prev_board, o) : c < last_column

----------------------------------------------------------------------------
\* The scanner's runs

Holds(b, r, c, who) == r \in DOMAIN b /\ c \in DOMAIN b[0] /\ b[r][c] = who

\* the n cells from <<r, c>> on in direction d
Line(r, c, d, n) == [i \in 1..n |-> <<r + (i - 1) * d[1], c + (i - 1) * d[2]>>]

Step(cells) == <<cells[2][1] - cells[1][1], cells[2][2] - cells[1][2]>>

RunWellFormed(b, run) ==
    LET cells == run.cells
        n == Len(cells)
    IN  /\ n >= 2
        /\ run.player # 0
        /\ \A i \in 1..n : Holds(b, cells[i][1], cells[i][2], run.player)
        /\ \A i, j \in 1..n : i # j => cells[i] # cells[j]
        /\ Step(cells) \in Directions
        /\ cells = Line(cells[1][1], cells[1][2], Step(cells), n)

\* Every line of two or more tokens of one player that cannot be extended
\* at either end, as (player, cells from its start in direction d)
MaximalRuns(b) ==
    {[player |-> who, cells |-> Line(p[1], p[2], d, n)] :
        <<who, p, d, n>> \in
            {x \in (1..NUM_PLAYERS) \X ((DOMAIN b) \X (DOMAIN b[0]))
                     \X Directions \X (2..Max(NumRows(b), NumCols(b))) :
                LET r == x[2][1]
                    c == x[2][2]
                    dr == x[3][1]
                    dc == x[3][2]
                IN  /\ \A i \in 0..(x[4] - 1) :
                           Holds(b, r + i * dr, c + i * dc, x[1])
                    /\ ~Holds(b, r - dr, c - dc, x[1])
                    /\ ~Holds(b, r + x[4] * dr, c + x[4] * dc, x[1])}}

\* C11: every run yielded by pieces_in_a_row has at least two positions,
\* belongs to a player, lies on cells that all hold that player's token, and
\* lists pairwise distinct in-board cells in traversal order with one constant
\* step: (0,+1), (+1,0), (+1,+1) or (-1,+1).
C11_RunsWellFormed ==
    last_call = "pieces_in_a_row" =>
        \A i \in 1..Len(result) : RunWellFormed(board, result[i])

\* a scan that yielded a rising diagonal of three cells and a run of the
\* other player
C11_Witness ==
    /\ last_call = "pieces_in_a_row"
    /\ \E i, j \in 1..Len(result) :
           /\ Len(result[i].cells) = 3
           /\ Step(result[i].cells) = <<-1, 1>>
           /\ result[j].player # result[i].player

\* C12: pieces_in_a_row yields each maximal line of two or more equal tokens,
\* in each of the four directions, exactly once: none is missed, none is
\* yielded twice and nothing else (no sub-run) is yielded.
C12_MaximalRunsOnce ==
    last_call = "pieces_in_a_row" =>
        /\ Range(result) = MaximalRuns(board)
        /\ \A i, j \in 1..Len(result) : i # j => result[i] # result[j]

\* a board with more columns than rows whose scan yields runs in all four
\* directions, one of them on a diagonal that does not start in a corner
C12_Witness ==
    /\ last_call = "pieces_in_a_row"
    /\ NumRows(board) < NumCols(board)
    /\ \A d \in Directions :
           \E i \in 1..Len(result) : Step(result[i].cells) = d
    /\ \E i \in 1..Len(result) :
           /\ Step(result[i].cells) = <<1, 1>>
           /\ result[i].cells[1] = <<0, 1>>

----------------------------------------------------------------------------
\* The turn loop as a whole

\* How many cells of b hold a token of who / of anybody
CountOf(b, who) ==
    Cardinality({p \in (DOMAIN b) \X (DOMAIN b[0]) : b[p[1]][p[2]] = who})

TokenCount(b) ==
    Cardinality({p \in (DOMAIN b) \X (DOMAIN b[0]) : b[p[1]][p[2]] # 0})

NumCells(b) == NumRows(b) * NumCols(b)

\* C13: a game of the turn loop, whatever the strategies and their choices,
\* is over after at most rows * cols moves: every turn is taken from a
\* NotOver state and adds one token, a NotOver state always has a free column
\* and an unfilled board, a full board is never NotOver, and once the outcome
\* is Draw or a winner no turn can be taken.
C13_GameEnds ==
    /\ last_call \in Strategies =>
           /\ raised = ""
           /\ TokenCount(board) = TokenCount(prev_board) + 1
           /\ TopRowHasEmpty(prev_board)
    /\ state = GAME_NOT_OVER =>
           /\ get_free_columns(board) # <<>>
           /\ FreeCols(board) # {}
           /\ TokenCount(board) < NumCells(board)
    /\ TokenCount(board) = NumCells(board) => state # GAME_NOT_OVER
    /\ state # GAME_NOT_OVER => ~ENABLED Next

\* a game of two or more in a row that lasted rows * cols moves on a board of
\* at least six cells and ended in a draw
C13_Witness ==
    /\ last_call \in Strategies
    /\ k >= 2
    /\ state = DRAW
    /\ NumCells(board) >= 6
    /\ TokenCount(board) = NumCells(board)

\* C14: replaying the recorded columns of a finished game on a fresh board,
\* players cycling from 1, never fails a drop or runs out of columns, is
\* NotOver while columns are left, and ends on the recorded game's final
\* board, cell for cell, with the recorded game's outcome.
C14_ReplayReproduces ==
    saved # <<>> =>
        /\ raised = ""
        /\ last_call = "replay" => drop_ok
        /\ columns # <<>> => state = GAME_NOT_OVER
        /\ columns = <<>> =>
               /\ state # GAME_NOT_OVER
               /\ state = saved[1].state
               /\ board = saved[1].board

\* a won game of five or more moves watched to its end
C14_Witness ==
    /\ saved # <<>>
    /\ last_call = "replay"
    /\ columns = <<>>
    /\ Len(plays) >= 5
    /\ state >= 1
    /\ board = saved[1].board

\* C15: along any sequence of drops on a board made by create_board,
\* get_free_columns lists exactly the columns with an empty top cell, 1-based
\* and ascending; a drop never adds a column to that set and removes at most
\* the column dropped into, and removes it exactly when the drop succeeds
\* and fills the column's top cell.
C15_FreeColumnsShrink ==
    LET free == get_free_columns(board)
    IN  /\ Range(free) = FreeCols(board)
        /\ \A i, j \in 1..Len(free) : i < j => free[i] < free[j]
        /\ last_call = "drop_piece" =>
               /\ FreeCols(board) \subseteq FreeCols(prev_board)
               /\ FreeCols(prev_board) \ FreeCols(board) \subseteq {last_column}
               /\ (last_column \in FreeCols(prev_board) \ FreeCols(board)) <=>
                      (drop_ok /\ EmptyRows(prev_board, last_column) = {0})

\* a drop that filled the top cell of a column of two or more rows and left
\* other columns free, on a board where an earlier column was full already
C15_Witness ==
    /\ last_call = "drop_piece"
    /\ drop_ok
    /\ NumRows(board) >= 2
    /\ last_column \in FreeCols(prev_board) \ FreeCols(board)
    /\ FreeCols(board) # {}
    /\ \E c \in 1..NumCols(board) : c \notin FreeCols(prev_board)

----------------------------------------------------------------------------
\* The hard strategy's fallback

\* Python's < on the tuples (ok, counts) column_score returns
ScoreLess(x, y) ==
    IF x.ok # y.ok THEN y.ok
    ELSE list_list_less(x.counts, y.counts, 1)

\* Twice the distance |(cols + 1) / 2 - c| of column c to the centre of b
CentreDistance2(b, c) ==
    LET d == NumCols(b) + 1 - 2 * c
    IN  IF d < 0 THEN -d ELSE d

IsEmptyBoard(b) == TokenCount(b) = 0

\* C16: when win_or_block_column returns no column, cpu_player_hard plays a
\* free column whose column_score no free column exceeds; among the free
\* columns with that same score none is nearer to the centre, and of those
\* equally near none has a lower number.  On an empty board it plays column
\* floor((cols + 1) / 2).
C16_HardFallback ==
    (last_call = "hard" /\ wob = <<>> /\ raised = "") =>
        LET b == prev_board
            score(c) == column_score(k, num_players, b, last_player, c)
            mine == score(last_column)
        IN  /\ last_column \in FreeCols(b)
            /\ \A c \in FreeCols(b) :
                   LET other == score(c)
                   IN  /\ ~ScoreLess(mine, other)
                       /\ ~ScoreLess(other, mine) =>
                              \/ CentreDistance2(b, last_column) < CentreDistance2(b, c)
                              \/ /\ CentreDistance2(b, last_column) = CentreDistance2(b, c)
                                 /\ last_column <= c
            /\ IsEmptyBoard(b) => last_column = (NumCols(b) + 1) \div 2

\* a fallback move on a board with tokens where the free columns differ in
\* score and the column played is not the one nearest to the centre
C16_Witness ==
    /\ last_call = "hard"
    /\ wob = <<>>
    /\ raised = ""
    /\ ~IsEmptyBoard(prev_board)
    /\ \E c \in FreeCols(prev_board) :
           /\ ScoreLess(column_score(k, num_players, prev_board, last_player, c),
                        column_score(k, num_players, prev_board, last_player,
                                     last_column))
           /\ CentreDistance2(prev_board, c) < CentreDistance2(prev_board, last_column)

----------------------------------------------------------------------------
\* Turn order

\* How many of the moves 0 .. t - 1 are made by player p when the players
\* take turns 1, 2, .., n, 1, ..
TurnsOf(p, t, n) == (t \div n) + (IF p <= t % n THEN 1 ELSE 0)

\* C17: the game starts with player 1; after t moves the player to move is
\* (t mod numPlayers) + 1 and the move just made was made by
\* ((t - 1) mod numPlayers) + 1; every token is in 1..numPlayers and player p
\* owns exactly as many tokens as it has had turns, so two players' counts
\* differ by at most one and an earlier player never has fewer.
C17_TurnOrder ==
    LET t == TokenCount(board)
    IN  /\ last_call = "none" => (player = 1 /\ t = 0)
        /\ player = (t % num_players) + 1
        /\ last_call \in Strategies =>
               /\ last_player = ((t - 1) % num_players) + 1
               /\ CountOf(board, last_player) = CountOf(prev_board, last_player) + 1
        /\ Tokens(board) \subseteq 1..num_players
        /\ \A p \in 1..num_players :
               CountOf(board, p) = TurnsOf(p, t, num_players)
        /\ \A p, q \in 1..num_players :
               p < q => CountOf(board, p) - CountOf(board, q) \in {0, 1}

\* three players, the turn has wrapped round to player 2 for the second time
C17_Witness ==
    /\ last_call \in Strategies
    /\ num_players = 3
    /\ TokenCount(board) = 4
    /\ last_player = 1
    /\ player = 2
    /\ CountOf(board, 1) = 2

----------------------------------------------------------------------------
\* One winner

\* The players holding a line of k or more tokens
LineHolders(b) == {p \in 1..num_players : HasLine(b, p, k)}

\* C18: in every state the turn loop reaches, at most one player has a line
\* of k or more tokens, and a player id returned by end_of_game is the id of
\* the player who moved last.
C18_OneWinner ==
    /\ Cardinality(LineHolders(board)) <= 1
    /\ (last_call \in Strategies /\ state >= 1) => state = last_player

----------------------------------------------------------------------------
\* column_score called on its own

\* result = column_score(k, NUM_PLAYERS, board, who, column) for a board that
\* drops can have built and that nobody has won, a player and a free column
InitScore ==
    \E b \in Boards : \E kk \in 3..MaxK :
        /\ Gravity(b)
        /\ end_of_game(kk, b) \notin 1..NUM_PLAYERS
        /\ Idle(b, kk)

ColumnScoreCall ==
    /\ last_call = "none"
    /\ \E who \in 1..num_players : \E n \in 1..Len(get_free_columns(board)) :
           LET column == get_free_columns(board)[n]
               r == column_score(k, num_players, board, who, column)
           IN  /\ last_call' = "column_score"
               /\ last_player' = who
               /\ last_column' = column
               /\ result' = r
               /\ raised' = r.raised
    /\ UNCHANGED <<board, k, num_players, player, state, prev_board, drop_ok,
                   wob, plays, columns, saved>>

NextScore == ColumnScoreCall

SpecScore == InitScore /\ [][NextScore]_vars

\* How many empty in-board cells follow <<r, c>> in direction <<dr, dc>>
\* before the first cell that is not empty
FreeBeyond(b, r, c, dr, dc) ==
    Cardinality({n \in 1..Max(NumRows(b), NumCols(b)) :
                    \A i \in 1..n : Holds(b, r + i * dr, c + i * dc, 0)})

\* The empty cells beyond the two ends of a run on b number at least kk - length
Extendable(kk, b, cells) ==
    LET d == Step(cells)
        first == cells[1]
        last == cells[Len(cells)]
    IN  FreeBeyond(b, last[1], last[2], d[1], d[2])
          + FreeBeyond(b, first[1], first[2], -d[1], -d[2])
            >= kk - Len(cells)

\* The maximal runs of who of length len on b that can still reach kk
Threats(kk, b, who, len) ==
    {run \in MaximalRuns(b) :
        /\ run.player = who
        /\ Len(run.cells) = len
        /\ Extendable(kk, b, run.cells)}

\* column_score has returned (True, counts)
ScoreReturned ==
    /\ last_call = "column_score"
    /\ result.raised = ""
    /\ result.ok

\* C19: when column_score returns (True, counts) for k >= 3 on a board that
\* drops can have built and nobody has won, the opponents' entry of the last
\* row of counts, the row of the runs of length 2, is 0.
C19_NoPairsForOpponents ==
    (ScoreReturned /\ k >= 3) => result.counts[Len(result.counts)][2] = 0

\* C20: when column_score returns (True, counts), for every length L in
\* 2..k-1 the player's entry of row k - L - 1 is the number of maximal runs of
\* the player of length L on the board with the player's token dropped in the
\* column that are extendable to k on that board.
C20_PlayerThreatsCounted ==
    ScoreReturned =>
        \A L \in 2..(k - 1) :
            result.counts[k - L][1] =
                Cardinality(Threats(k, Dropped(board, last_player, last_column),
                                    last_player, L))

----------------------------------------------------------------------------
\* Games nobody can win

\* The engine takes any k: the turn loop run with a k greater than both
\* dimensions of the board, as cpu_player_hard's doctests call it (3x3,
\* k = 4, two players), alone or with the two players of the original game
UnwinnableSetups ==
    {s \in [num_rows : 1..MaxRows, num_cols : 1..MaxCols,
            k : 1..MaxK, num_players : 1..NUM_PLAYERS] :
        /\ s.num_rows * s.num_cols <= MaxCells
        /\ s.k > Max(s.num_rows, s.num_cols)}

InitUnwinnable ==
    \E s \in UnwinnableSetups :
        /\ board = create_board(s.num_rows, s.num_cols)
        /\ k = s.k
        /\ num_players = s.num_players
        /\ player = 1
        /\ state = GAME_NOT_OVER
        /\ last_call = "none"
        /\ prev_board = create_board(s.num_rows, s.num_cols)
        /\ last_player = 0
        /\ last_column = 0
        /\ drop_ok = FALSE
        /\ raised = ""
        /\ wob = <<>>
        /\ result = <<>>
        /\ plays = <<>>
        /\ columns = <<>>
        /\ saved = <<>>

SpecUnwinnable == InitUnwinnable /\ [][Next]_vars

\* Every board of the shape of b with cells 0..NUM_PLAYERS
BoardsLike(b) == [DOMAIN b -> [DOMAIN b[0] -> 0..NUM_PLAYERS]]

\* C21: when k is greater than both dimensions, end_of_game returns no winner
\* on any board of that shape, and every game, whatever the strategies, goes
\* on without an exception, one token a turn, while the board has an empty
\* cell and is a Draw exactly when the board is full, that is after
\* rows * cols moves.
C21_NeverWon ==
    /\ last_call = "none" =>
           \A b \in BoardsLike(board) : end_of_game(k, b) \in {GAME_NOT_OVER, DRAW}
    /\ raised = ""
    /\ state \in {GAME_NOT_OVER, DRAW}
    /\ (state = DRAW) <=> (TokenCount(board) = NumCells(board))
    /\ last_call \in Strategies =>
           /\ drop_ok
           /\ TokenCount(board) = TokenCount(prev_board) + 1

\* the hard strategy's move filling the last cell of a 3x3 board with k = 4
C21_Witness ==
    /\ last_call = "hard"
    /\ NumRows(board) = 3
    /\ NumCols(board) = 3
    /\ k = 4
    /\ num_players = 2
    /\ TokenCount(board) = 9
    /\ state = DRAW

----------------------------------------------------------------------------
\* The indexes column_score uses in the hard strategy's fallback

\* The lengths of the runs column_score counts for who playing column c of b
PlayerCounted(b, who, c) ==
    {Len(run.cells) :
        run \in {r \in Range(pieces_in_a_row(copy_and_drop_piece(b, who, c))) :
                    r.player = who /\ can_win_from_pieces(k, b, r.cells)}}

\* The lengths of the runs column_score counts for the opponents of who in
\* column c of b, were it to go through every opponent
OpponentCounted(b, who, c) ==
    UNION {LET bo == copy_and_drop_piece(b, o, c)
           IN  {Len(run.cells) :
                   run \in {r \in Range(pieces_in_a_row(bo)) :
                               /\ r.player = o
                               /\ can_win_from_pieces(k, bo, r.cells)
                               /\ Len(r.cells) # 2}} :
           o \in (1..num_players) \ {who}}

\* C22: when cpu_player_hard falls back on the scores (win_or_block_column
\* returned None), for every free column every run column_score counts, for
\* the player or for an opponent, has a length in 2..k-1, so the index
\* k - length - 1 lies in 0..k-3, and column_score raises nothing.
C22_IndexesInRange ==
    (last_call = "hard" /\ wob = <<>>) =>
        /\ raised = ""
        /\ \A c \in FreeCols(prev_board) :
               /\ column_score(k, num_players, prev_board, last_player, c).raised = ""
               /\ \A len \in PlayerCounted(prev_board, last_player, c)
                              \cup OpponentCounted(prev_board, last_player, c) :
                      /\ len \in 2..(k - 1)
                      /\ k - len - 1 \in 0..(k - 3)

\* a fallback move in a game of three in a row where a pair of the player's
\* tokens is counted for one of the free columns
C22_Witness ==
    /\ last_call = "hard"
    /\ wob = <<>>
    /\ raised = ""
    /\ k = 3
    /\ \E c \in FreeCols(prev_board) : 2 \in PlayerCounted(prev_board, last_player, c)

====
